---- MODULE Spec2Model ----
(***************************************************************************)
(* A model of redux-rest-client: the slice state of one ReduxRESTClient    *)
(* instance (isLoaded, records, requests), its reducers, its selectors and *)
(* the request lifecycle of doRequest and the CRUD actions.                *)
(***************************************************************************)
EXTENDS Integers, Sequences, FiniteSets, Bags, TLC

(***************************************************************************)
(* Bounds of the model.                                                    *)
(***************************************************************************)
\* a read/created/updated payload carries at most MaxBatch records
MaxBatch == 2
\* at most MaxRequests requests are started in a run
MaxRequests == 2
\* at most MaxInstances instances are constructed in a run
MaxInstances == 3
\* the batch an upsert is exchanged with carries at most MaxOther records
MaxOther == 1

(***************************************************************************)
(* JavaScript values.  A value is tagged with its type so that the loose   *)
(* comparisons of the source (==, !=, <, >, truthiness) are computed as    *)
(* JavaScript computes them.                                               *)
(***************************************************************************)
Num(k) == [num |-> k]
Str(s) == [str |-> s]
JsTrue == [bool |-> TRUE]
Undefined == [undef |-> TRUE]
Null == [null |-> TRUE]
\* an array, of the elements of the sequence
JsArray(seq) == [array |-> seq]

IsNum(v) == DOMAIN v = {"num"}
IsStr(v) == DOMAIN v = {"str"}
\* Array.isArray(v)
IsArray(v) == DOMAIN v = {"array"}

\* the strings of the model, in code-unit order
StrOrder == <<"", "0", "1", "2", "3", "X", "Y">>
StrRank(s) == CHOOSE i \in 1..Len(StrOrder) : StrOrder[i] = s
\* the strings that parse as a number (ToNumber of a string), with their value
NumericStr == ("" :> 0) @@ ("0" :> 0) @@ ("1" :> 1) @@ ("2" :> 2) @@ ("3" :> 3)

\* ToNumber is NaN for undefined and for a string that is no numeral
IsNaN(v) == \/ v = Undefined
            \/ IsStr(v) /\ v.str \notin DOMAIN NumericStr
ToNumber(v) == IF IsNum(v) THEN v.num
               ELSE IF IsStr(v) THEN NumericStr[v.str]
               ELSE IF v = JsTrue THEN 1
               ELSE 0

\* a == b
LooseEq(a, b) ==
  IF a = b THEN TRUE
  ELSE IF DOMAIN a = DOMAIN b THEN FALSE
  ELSE IF a \in {Undefined, Null} \/ b \in {Undefined, Null}
       THEN a \in {Undefined, Null} /\ b \in {Undefined, Null}
  ELSE ~IsNaN(a) /\ ~IsNaN(b) /\ ToNumber(a) = ToNumber(b)

\* a < b
JsLt(a, b) ==
  IF IsStr(a) /\ IsStr(b) THEN StrRank(a.str) < StrRank(b.str)
  ELSE ~IsNaN(a) /\ ~IsNaN(b) /\ ToNumber(a) < ToNumber(b)

\* a > b
JsGt(a, b) == JsLt(b, a)

\* if (v)
Truthy(v) == v \notin {Num(0), Str(""), Undefined, Null, [bool |-> FALSE]}

\* v || d
OrElse(v, d) == IF Truthy(v) THEN v ELSE d

(***************************************************************************)
(* Objects are functions from property names to values; reading a property *)
(* an object does not have gives undefined.                                *)
(***************************************************************************)
EmptyObj == [p \in {} |-> Undefined]
Get(obj, p) == IF p \in DOMAIN obj THEN obj[p] ELSE Undefined

\* this._idField, with the default of the constructor
idField == "_id"

\* the identity values of the model are numbers, one of them falsy; the
\* names are strings
IdValues == {Num(0), Num(1)}
NameValues == {Str("X"), Str("Y")}

\* the records a server sends: an identity value and, optionally, a name
Records == {(idField :> v) : v \in IdValues}
           \cup {(idField :> v) @@ ("name" :> n) : v \in IdValues, n \in NameValues}

SeqsUpTo(S, n) == UNION {[1..k -> S] : k \in 0..n}
Batches == SeqsUpTo(Records, MaxBatch)

\* the payloads of the deleted action: an identity value, the all flag,
\* both, or neither
DeletedPayloads == {(idField :> v) : v \in IdValues}
                   \cup {("all" :> JsTrue), EmptyObj}
                   \cup {(idField :> v) @@ ("all" :> JsTrue) : v \in IdValues}

(***************************************************************************)
(* The comparators.  "default" is the one the constructor installs;        *)
(* "descending" stands for a comparator given to setSortFunction.          *)
(***************************************************************************)
SortFunctions == {"default", "descending"}

defaultSortFunction(rec1, rec2) ==
  IF JsLt(Get(rec1, idField), Get(rec2, idField)) THEN -1
  ELSE IF JsGt(Get(rec1, idField), Get(rec2, idField)) THEN 1
  ELSE 0

descendingSortFunction(rec1, rec2) ==
  IF JsGt(Get(rec1, idField), Get(rec2, idField)) THEN -1
  ELSE IF JsLt(Get(rec1, idField), Get(rec2, idField)) THEN 1
  ELSE 0

Compare(fn, rec1, rec2) ==
  IF fn = "default" THEN defaultSortFunction(rec1, rec2)
  ELSE descendingSortFunction(rec1, rec2)

\* Array.prototype.sort is stable: rec goes after every element that does
\* not compare greater than it
InsertSorted(list, rec, fn) ==
  LET after == {i \in 1..Len(list) : Compare(fn, list[i], rec) <= 0}
      k == IF after = {} THEN 0 ELSE CHOOSE i \in after : \A j \in after : j <= i
  IN SubSeq(list, 1, k) \o <<rec>> \o SubSeq(list, k + 1, Len(list))

\* the list left in the order of arrival
SortKeepingOrder(list, fn) == list

RECURSIVE Sort(_, _)
Sort(list, fn) ==
  IF list = <<>> THEN <<>>
  ELSE InsertSorted(Sort(SubSeq(list, 1, Len(list) - 1), fn), list[Len(list)], fn)

(***************************************************************************)
(* _createOrUpdate                                                         *)
(***************************************************************************)
\* the record replaced wholesale
AssignReplacing(rec, newRec) == newRec

\* for (const property in newRec) rec[property] = newRec[property]
Assign(rec, newRec) ==
  [p \in DOMAIN rec \cup DOMAIN newRec |->
     IF p \in DOMAIN newRec THEN newRec[p] ELSE rec[p]]

\* a new record pushed although one was found
createOrUpdatePushing(list, newRec) == Append(list, newRec)

\* a new record not pushed when none was found
createOrUpdateFoundOnly(list, newRec) ==
  [i \in 1..Len(list) |->
     IF LooseEq(Get(list[i], idField), Get(newRec, idField))
     THEN Assign(list[i], newRec) ELSE list[i]]

createOrUpdate(list, newRec) ==
  LET matches(rec) == LooseEq(Get(rec, idField), Get(newRec, idField))
      existingRec == \E i \in 1..Len(list) : matches(list[i])
      updated == [i \in 1..Len(list) |->
                    IF matches(list[i]) THEN Assign(list[i], newRec) ELSE list[i]]
  IN IF existingRec THEN updated ELSE Append(updated, newRec)

\* payload.records.forEach(newRec => this._createOrUpdate(state.records, newRec))
RECURSIVE createOrUpdateAll(_, _)
createOrUpdateAll(list, batch) ==
  IF batch = <<>> THEN list
  ELSE createOrUpdateAll(createOrUpdate(list, Head(batch)), Tail(batch))

(***************************************************************************)
(* The slice.  state is the slice's state (initialState of createSlice),   *)
(* sortFunction is this._sortFunction.  requests maps a request type to    *)
(* undefined (no such key), null, or a request object.                     *)
(***************************************************************************)
RequestTypes == {"fetch", "fetchById", "create", "update", "delete", "custom"}

VARIABLES
  state,         \* [isLoaded, records, requests]: the state of the slice
  sortFunction,  \* the comparator in use, a member of SortFunctions
  populated,     \* history: since the initial state or the last clear, a list
                 \* was read or records were created or updated
  inflight,      \* the bag of the requests in flight, each with whether it was
                 \* started behind a request of its type that was in flight
  started,       \* the number of requests started
  fetchFunction, \* Requests.fetchFunction, the transport every request calls
  instances,     \* the instances constructed, each with the fetchFunction of
                 \* its options
  observed       \* history: None, or the one transition that is observed,
                 \* with its payload and the state before it

vars == <<state, sortFunction, populated, inflight, started, fetchFunction,
         instances, observed>>

\* the variables of the transport
transportVars == <<fetchFunction, instances>>

\* Requests.defaultFetchFunction, which calls window.fetch
defaultFetchFunction == [function |-> "window.fetch"]

\* the resource name the instances of the model are constructed with
resource == "resource"

\* the path every instance gets
constructorPathDefaultOnly(resourceName, options) == <<"/", resourceName>>

\* options.path || `/${resourceName}`: a string is the sequence of its
\* pieces, and the empty string is falsy
constructorPath(resourceName, options) ==
  IF "path" \in DOMAIN options /\ options.path # <<>> THEN options.path
  ELSE <<"/", resourceName>>

\* state.requests = {}
NoRequests == [t \in RequestTypes |-> Undefined]

initialState == [isLoaded |-> FALSE, records |-> <<>>, requests |-> NoRequests]

(***************************************************************************)
(* The reducers, as functions from a state and a payload to a state.       *)
(***************************************************************************)
\* read without isLoaded
readNotLoaded(s, payload, fn) ==
  [s EXCEPT !.records = Sort(createOrUpdateAll(s.records, payload.records), fn)]

\* read emptying the table of requests
readResettingRequests(s, payload, fn) ==
  [s EXCEPT !.isLoaded = TRUE,
            !.records = Sort(createOrUpdateAll(s.records, payload.records), fn),
            !.requests = NoRequests]

read(s, payload, fn) ==
  [s EXCEPT !.isLoaded = TRUE,
            !.records = Sort(createOrUpdateAll(s.records, payload.records), fn)]

created(s, payload, fn) ==
  [s EXCEPT !.records = Sort(createOrUpdateAll(s.records, payload.records), fn)]

updated(s, payload, fn) ==
  [s EXCEPT !.records = Sort(createOrUpdateAll(s.records, payload.records), fn)]

\* deleted resetting the slice on the all flag
deletedResetting(s, payload, fn) ==
  IF Truthy(Get(payload, idField))
  THEN LET keep(rec) == ~LooseEq(Get(rec, idField), Get(payload, idField))
       IN [s EXCEPT !.records = Sort(SelectSeq(s.records, keep), fn)]
  ELSE IF Truthy(Get(payload, "all"))
  THEN [s EXCEPT !.records = <<>>, !.isLoaded = FALSE]
  ELSE s

deleted(s, payload, fn) ==
  IF Truthy(Get(payload, idField))
  THEN LET keep(rec) == ~LooseEq(Get(rec, idField), Get(payload, idField))
       IN [s EXCEPT !.records = Sort(SelectSeq(s.records, keep), fn)]
  ELSE IF Truthy(Get(payload, "all"))
  THEN [s EXCEPT !.records = <<>>]
  ELSE s

\* updateRequest replacing the whole table by the one entry
updateRequestReplacingAll(s, payload) ==
  [s EXCEPT !.requests =
     [t \in RequestTypes |->
        IF t = payload.requestType
        THEN [status |-> Get(payload, "status"),
              statusCode |-> OrElse(Get(payload, "statusCode"), Null),
              data |-> Get(payload, "data"),
              error |-> OrElse(Get(payload, "error"), Null)]
        ELSE Undefined]]

\* updateRequest fenced: the outcome of a request is dropped while another
\* request of its type is in flight
updateRequestFenced(s, payload) ==
  LET same == {req \in DOMAIN inflight : req.requestType = payload.requestType}
  IN IF /\ payload.status # Str("pending")
        /\ (Cardinality(same) > 1 \/ \E req \in same : inflight[req] > 1)
     THEN s
     ELSE [s EXCEPT !.requests[payload.requestType] =
            [status |-> Get(payload, "status"),
             statusCode |-> OrElse(Get(payload, "statusCode"), Null),
             data |-> Get(payload, "data"),
             error |-> OrElse(Get(payload, "error"), Null)]]

\* updateRequest emptying the collection when it records a failure
updateRequestDroppingRecords(s, payload) ==
  [s EXCEPT !.records = IF Get(payload, "status") = Str("failed") THEN <<>> ELSE @,
            !.requests[payload.requestType] =
              [status |-> Get(payload, "status"),
               statusCode |-> OrElse(Get(payload, "statusCode"), Null),
               data |-> Get(payload, "data"),
               error |-> OrElse(Get(payload, "error"), Null)]]

\* updateRequest keeping, for a field the payload does not give, the value
\* of the entry it replaces
updateRequestMerging(s, payload) ==
  LET old == s.requests[payload.requestType]
      kept(field, absent) ==
        IF field \in DOMAIN payload THEN payload[field]
        ELSE IF old \in {Undefined, Null} THEN absent ELSE old[field]
  IN [s EXCEPT !.requests[payload.requestType] =
        [status |-> Get(payload, "status"),
         statusCode |-> OrElse(kept("statusCode", Null), Null),
         data |-> kept("data", Undefined),
         error |-> OrElse(kept("error", Null), Null)]]

updateRequest(s, payload) ==
  [s EXCEPT !.requests[payload.requestType] =
     [status |-> Get(payload, "status"),
      statusCode |-> OrElse(Get(payload, "statusCode"), Null),
      data |-> Get(payload, "data"),
      error |-> OrElse(Get(payload, "error"), Null)]]

\* clearRequest clearing the entry of every request type
clearRequestOfAll(s, payload) ==
  [s EXCEPT !.requests = [t \in RequestTypes |-> Null]]

clearRequest(s, payload) ==
  [s EXCEPT !.requests[payload.requestType] = Null]

\* clear keeping the requests
clearKeepingRequests(s) ==
  [s EXCEPT !.isLoaded = FALSE, !.records = <<>>]

clear(s) ==
  [s EXCEPT !.isLoaded = FALSE, !.records = <<>>, !.requests = NoRequests]

(***************************************************************************)
(* Dispatching the slice's actions to the store.  A run is observed for    *)
(* one transition: any transition may be the observed one, which is then   *)
(* recorded with its payload and the state before it and ends the run, so  *)
(* that a property of one transition is a property of the observed states. *)
(***************************************************************************)
None == [op |-> "none"]

\* the inputs of a run that goes on: none once a transition was observed
Running(S) == IF observed = None THEN S ELSE {}

Observe(op, payload) ==
  /\ observed = None
  /\ observed' \in {None, [op |-> op, payload |-> payload, before |-> state]}

Init ==
  /\ state = initialState
  /\ sortFunction = "default"
  /\ populated = FALSE
  /\ inflight = EmptyBag
  /\ started = 0
  /\ fetchFunction = defaultFetchFunction
  /\ instances = <<[fetchFunction |-> Undefined, options |-> EmptyObj,
                    path |-> constructorPath(resource, EmptyObj)]>>
  /\ observed = None

DispatchRead(batch) ==
  /\ Observe("read", batch)
  /\ state' = read(state, [records |-> batch], sortFunction)
  /\ populated' = TRUE
  /\ UNCHANGED <<sortFunction, inflight, started>>
  /\ UNCHANGED transportVars

DispatchCreated(batch) ==
  /\ Observe("created", batch)
  /\ state' = created(state, [records |-> batch], sortFunction)
  /\ populated' = (populated \/ batch # <<>>)
  /\ UNCHANGED <<sortFunction, inflight, started>>
  /\ UNCHANGED transportVars

DispatchUpdated(batch) ==
  /\ Observe("updated", batch)
  /\ state' = updated(state, [records |-> batch], sortFunction)
  /\ populated' = (populated \/ batch # <<>>)
  /\ UNCHANGED <<sortFunction, inflight, started>>
  /\ UNCHANGED transportVars

DispatchDeleted(payload) ==
  /\ Observe("deleted", payload)
  /\ state' = deleted(state, payload, sortFunction)
  /\ UNCHANGED <<sortFunction, populated, inflight, started>>
  /\ UNCHANGED transportVars

DispatchUpdateRequest(payload) ==
  /\ Observe("updateRequest", payload)
  /\ state' = updateRequest(state, payload)
  /\ UNCHANGED <<sortFunction, populated, inflight, started>>
  /\ UNCHANGED transportVars

\* the arguments of getError and clearRequest that name no request type
NoRequestTypes == {Undefined, Null, Str("")}

\* the test of getError and clearRequest made for undefined and null only
noRequestTypeIfNullish(requestType) == requestType \in {Undefined, Null}

\* if (!requestType): getError and clearRequest throw
noRequestType(requestType) == ~Truthy(requestType)

\* the selectors of the requests, applied to the state of the slice
getRequest(s, requestType) == Get(s.requests, requestType)

getRequestStatus(s, requestType) ==
  LET request == Get(s.requests, requestType)
  IN IF Truthy(request) THEN request.status ELSE Null

getError(s, requestType) ==
  LET request == Get(s.requests, requestType)
  IN IF Truthy(request) THEN request.error ELSE Null

\* dispatch(instance.clearRequest(requestType)): clearRequest throws when it
\* is given no request type, and nothing is dispatched
DispatchClearRequest(requestType) ==
  /\ Observe("clearRequest", [requestType |-> requestType,
                               thrown |-> noRequestType(requestType)])
  /\ state' = IF noRequestType(requestType) THEN state
               ELSE clearRequest(state, [requestType |-> requestType.str])
  /\ UNCHANGED <<sortFunction, populated, inflight, started>>
  /\ UNCHANGED transportVars

\* clear that drops the requests in flight
DispatchClearCancelling ==
  /\ Observe("clear", [inflight |-> inflight])
  /\ state' = clear(state)
  /\ populated' = FALSE
  /\ inflight' = EmptyBag
  /\ UNCHANGED <<sortFunction, started>>
  /\ UNCHANGED transportVars

DispatchClear ==
  /\ Observe("clear", [inflight |-> inflight])
  /\ state' = clear(state)
  /\ populated' = FALSE
  /\ UNCHANGED <<sortFunction, inflight, started>>
  /\ UNCHANGED transportVars

setSortFunction(fn) ==
  /\ Observe("setSortFunction", fn)
  /\ sortFunction' = fn
  /\ UNCHANGED <<state, populated, inflight, started>>
  /\ UNCHANGED transportVars

\* the selectors of the collection, applied to the state of the slice
getAll(s) == s.records

\* records.find(rec => rec[this._idField] == id): the first such record, or
\* undefined
get(s, id) ==
  LET found == SelectSeq(s.records, LAMBDA rec : LooseEq(Get(rec, idField), id))
  IN IF found = <<>> THEN Undefined ELSE found[1]

\* _filterRecords keeping the records that match any one of the conditions
filterRecordsMatchingAny(records, conditions) ==
  IF DOMAIN conditions = {} THEN records
  ELSE SelectSeq(records,
         LAMBDA rec : \E key \in DOMAIN conditions : LooseEq(Get(rec, key), conditions[key]))

\* _filterRecords: the list is filtered once for each key of the conditions
RECURSIVE filterRecords(_, _)
filterRecords(records, conditions) ==
  IF DOMAIN conditions = {} THEN records
  ELSE LET key == CHOOSE k \in DOMAIN conditions : TRUE
           rest == [k \in DOMAIN conditions \ {key} |-> conditions[k]]
       IN filterRecords(
            SelectSeq(records, LAMBDA rec : LooseEq(Get(rec, key), conditions[key])),
            rest)

where(s, conditions) == filterRecords(s.records, conditions)

\* findBy giving the last record of the list
findByLast(s, conditions) ==
  LET list == filterRecords(s.records, conditions)
  IN IF Len(list) > 0 THEN list[Len(list)] ELSE Null

findBy(s, conditions) ==
  LET list == filterRecords(s.records, conditions)
  IN IF Len(list) > 0 THEN list[1] ELSE Null

\* the arguments of the selectors: identity values, one of them a string
\* that is loosely equal to a number and one no record has, and conditions
\* on the identity, on the name, on both or on nothing, null being loosely
\* equal to the field a record does not have
IdArguments == IdValues \cup {Str("1"), Num(2)}
NameArguments == NameValues \cup {Null}
Conditions ==
  {EmptyObj}
  \cup {(idField :> v) : v \in IdArguments}
  \cup {("name" :> n) : n \in NameArguments}
  \cup {(idField :> v) @@ ("name" :> n) : v \in IdArguments, n \in NameArguments}

\* a component makes a selector and applies it to the state of the store;
\* getError throws when it is given no request type
Select(selector, argument) ==
  LET thrown == selector = "getError" /\ noRequestType(argument)
      result == CASE thrown -> Undefined
                  [] selector = "getError" -> getError(state, argument.str)
                  [] selector = "get" -> get(state, argument)
                  [] selector = "where" -> JsArray(where(state, argument))
                  [] selector = "findBy" -> findBy(state, argument)
  IN /\ Observe("select", [selector |-> selector, argument |-> argument,
                            thrown |-> thrown, result |-> result])
     /\ UNCHANGED <<state, sortFunction, populated, inflight, started>>
     /\ UNCHANGED transportVars

RequestSelections ==
  {<<"getError", t>> : t \in {Str("fetch")} \cup NoRequestTypes}

CollectionSelections ==
  {<<"get", id>> : id \in IdArguments}
  \cup {<<"where", conditions>> : conditions \in Conditions}
  \cup {<<"findBy", conditions>> : conditions \in Conditions}

\* the updateRequest payloads _updateRequest builds for a request type
PendingPayload(t) == ("requestType" :> t) @@ ("status" :> Str("pending"))
FailedPayload(t, message) ==
  ("requestType" :> t) @@ ("status" :> Str("failed"))
  @@ ("error" :> [message |-> message])

SucceededPayload(t, statusCode, data) ==
  ("requestType" :> t) @@ ("status" :> Str("succeeded"))
  @@ ("data" :> data) @@ ("statusCode" :> statusCode)

ReducerPayloads ==
  {PendingPayload("fetch"), FailedPayload("fetch", Str("Page/Resource Not Found"))}

NextReducers ==
  \/ \E batch \in Running(Batches) : DispatchRead(batch)
  \/ \E batch \in Running(Batches) : DispatchCreated(batch)
  \/ \E batch \in Running(Batches) : DispatchUpdated(batch)
  \/ \E payload \in Running(DeletedPayloads) : DispatchDeleted(payload)
  \/ \E payload \in Running(ReducerPayloads) : DispatchUpdateRequest(payload)
  \/ DispatchClearRequest(Str("fetch"))
  \/ DispatchClear
  \/ \E fn \in Running(SortFunctions) : setSortFunction(fn)
  \/ \E selection \in Running(CollectionSelections) : Select(selection[1], selection[2])

SpecReducers == Init /\ [][NextReducers]_vars

(***************************************************************************)
(* The upserts alone, under the default comparator.                        *)
(***************************************************************************)
NextUpserts ==
  \/ \E batch \in Running(Batches) : DispatchRead(batch)
  \/ \E batch \in Running(Batches) : DispatchCreated(batch)
  \/ \E batch \in Running(Batches) : DispatchUpdated(batch)

SpecUpserts == Init /\ [][NextUpserts]_vars

(***************************************************************************)
(* The table of the requests: updateRequest and clearRequest dispatched    *)
(* for two request types over a collection that is read, and getError.     *)
(***************************************************************************)
EntryPayloads ==
  UNION {{PendingPayload(t), FailedPayload(t, Str("Page/Resource Not Found")),
          SucceededPayload(t, Num(200), JsArray(<<>>))} : t \in {"fetch", "create"}}

NextEntries ==
  \/ \E payload \in Running(EntryPayloads) : DispatchUpdateRequest(payload)
  \/ \E requestType \in Running({Str("fetch"), Str("create")} \cup NoRequestTypes) :
       DispatchClearRequest(requestType)
  \/ \E rec \in Running(Records) : DispatchRead(<<rec>>)
  \/ \E selection \in Running(RequestSelections) : Select(selection[1], selection[2])

SpecEntries == Init /\ [][NextEntries]_vars

(***************************************************************************)
(* The request lifecycle: doRequest, _updateRequest and the CRUD actions.  *)
(***************************************************************************)
\* this.path of the instance the slice belongs to
path == instances[1].path

\* what a server answers: a response with a success status, or one with an
\* error status
OkResponse == [ok |-> TRUE, status |-> Num(200), statusText |-> Str("OK")]
ErrorResponses ==
  {[ok |-> FALSE, status |-> Num(404), statusText |-> Str("Not Found")],
   [ok |-> FALSE, status |-> Num(500), statusText |-> Str("Internal Server Error")]}
Responses == {OkResponse} \cup ErrorResponses

\* the bodies of the error responses, the errors of the transport, and the
\* records and lists of the success responses
Texts == {Str(""), Str("No such record")}
TransportErrors == {[message |-> Str("Failed to fetch")]}
ServerRecords == {(idField :> v) @@ ("name" :> Str("X")) : v \in IdValues}
\* the lists a server sends hold no record twice
ServerLists ==
  {JsArray(list) : list \in
     {l \in SeqsUpTo(ServerRecords, Cardinality(ServerRecords)) :
        \A i, j \in 1..Len(l) : i # j => l[i] # l[j]}}

statusTextOverride(code) ==
  CASE code = Num(401) -> Str("Unauthorized, please login in order to complete this action")
    [] code = Num(403) -> Str("Forbidden - you are not allowed to perform this action")
    [] code = Num(404) -> Str("Page/Resource Not Found")
    [] code = Num(409) -> Str("Conflict - unable to perform this action")
    [] OTHER -> Undefined

\* _updateRequest taking a rejection of the transport for no outcome at all
requestParamsIgnoringError(requestType, response, error, data) ==
  IF Truthy(response)
  THEN IF response.ok
       THEN ("requestType" :> requestType) @@ ("status" :> Str("succeeded"))
            @@ (IF Truthy(data) THEN ("data" :> data) ELSE EmptyObj)
            @@ ("statusCode" :> response.status)
       ELSE ("requestType" :> requestType) @@ ("status" :> Str("failed"))
  ELSE ("requestType" :> requestType) @@ ("status" :> Str("pending"))

\* _updateRequest: the payload of the updateRequest it dispatches.  For a
\* response with an error status the payload is dispatched by dispatchError,
\* once the text of the response is read.
requestParams(requestType, response, error, data) ==
  IF Truthy(response)
  THEN IF response.ok
       THEN ("requestType" :> requestType) @@ ("status" :> Str("succeeded"))
            @@ (IF Truthy(data) THEN ("data" :> data) ELSE EmptyObj)
            @@ ("statusCode" :> response.status)
       ELSE ("requestType" :> requestType) @@ ("status" :> Str("failed"))
  ELSE IF Truthy(error)
  THEN ("requestType" :> requestType) @@ ("status" :> Str("failed"))
       @@ ("error" :> [message |-> error.message])
  ELSE ("requestType" :> requestType) @@ ("status" :> Str("pending"))

dispatchError(params, response, text) ==
  params @@ ("error" :> [message |->
     OrElse(text, OrElse(statusTextOverride(response.status), response.statusText))])

\* the request object the reducer stores for a request that is pending
PendingRequest ==
  [status |-> Str("pending"), statusCode |-> Null, data |-> Undefined, error |-> Null]

\* the transport called before the pending state is recorded
doRequestCallingFirst(s, requestType, method, url, params) ==
  [state |-> updateRequest(s, requestParams(requestType, Undefined, Undefined, Undefined)),
   call |-> [method |-> method, url |-> url, params |-> params,
             seen |-> s.requests[requestType]]]

\* the thunk of doRequest up to the call of the transport: the state it
\* leaves, and the call of the transport with the request object the slice
\* holds when the transport is called
doRequest(s, requestType, method, url, params) ==
  LET pending == updateRequest(s, requestParams(requestType, Undefined, Undefined, Undefined))
  IN [state |-> pending,
      call |-> [method |-> method, url |-> url, params |-> params,
                seen |-> pending.requests[requestType]]]

\* a request of the request type is in flight
InFlight(requestType) == \E req \in DOMAIN inflight : req.requestType = requestType

\* a request is started: the thunk runs and the request is in flight
StartRequest(kind, requestType, method, url, params, handlers) ==
  LET thunk == doRequest(state, requestType, method, url, params)
  IN /\ started < MaxRequests
     /\ Observe("start", [kind |-> kind, requestType |-> requestType, call |-> thunk.call])
     /\ state' = thunk.state
     /\ inflight' = inflight (+) SetToBag(
          {[phase |-> "sent", kind |-> kind, requestType |-> requestType,
            params |-> params, handlers |-> handlers, response |-> Undefined,
            behind |-> InFlight(requestType)]})
     /\ started' = started + 1
     /\ UNCHANGED <<sortFunction, populated>>
     /\ UNCHANGED transportVars

fetch(params) ==
  StartRequest("fetch", "fetch", "GET", path, params, {"onSuccess"})

fetchById(id) ==
  StartRequest("fetchById", "fetchById", "GET", path \o <<"/", ToString(id.num)>>, EmptyObj, {"onSuccess"})

create(params) ==
  StartRequest("create", "create", "POST", path, params, {"onSuccess"})

update(params) ==
  StartRequest("update", "update", "PUT", path, params, {"onSuccess"})

delete(params) ==
  StartRequest("delete", "delete", "DELETE", path, params, {"onSuccess"})

\* doRequest called from outside, with or without handlers
customRequest(handlers) ==
  StartRequest("custom", "custom", "POST", path \o <<"/", "custom">>, EmptyObj, handlers)

\* a request in flight settles and leaves the bag, or goes on as next
Remove(bag, req) == bag (-) SetToBag({req})
Replace(bag, req, next) == Remove(bag, req) (+) SetToBag({next})

\* the success handler with the collection mutation and the succeeded record
\* dispatched in the other order
onSuccessRecordingFirst(kind, s, response, data, fn) ==
  LET records == IF kind = "fetch" /\ IsArray(data) THEN data.array ELSE <<data>>
      recorded == updateRequest(s, requestParams(kind, response, Null, data))
  IN <<recorded,
       CASE kind \in {"fetch", "fetchById"} -> read(recorded, [records |-> records], fn)
         [] kind = "create" -> created(recorded, [records |-> records], fn)
         [] kind = "update" -> updated(recorded, [records |-> records], fn)
         [] kind = "delete" -> deleted(recorded, data, fn)>>

\* the success handler with fetchById dispatching created
onSuccessByIdCreated(kind, s, response, data, fn) ==
  LET records == IF kind = "fetch" /\ IsArray(data) THEN data.array ELSE <<data>>
      merged == CASE kind = "fetch" -> read(s, [records |-> records], fn)
                  [] kind \in {"fetchById", "create"} -> created(s, [records |-> records], fn)
                  [] kind = "update" -> updated(s, [records |-> records], fn)
                  [] kind = "delete" -> deleted(s, data, fn)
  IN <<merged, updateRequest(merged, requestParams(kind, response, Null, data))>>

\* the onSuccess of fetch, fetchById, create, update and delete: the states
\* of the store after each of its two dispatches, the last of which it leaves.  data is the parsed body
\* of the response, for delete the params of the request.
onSuccess(kind, s, response, data, fn) ==
  LET records == IF kind = "fetch" /\ IsArray(data) THEN data.array ELSE <<data>>
      merged == CASE kind \in {"fetch", "fetchById"} -> read(s, [records |-> records], fn)
                  [] kind = "create" -> created(s, [records |-> records], fn)
                  [] kind = "update" -> updated(s, [records |-> records], fn)
                  [] kind = "delete" -> deleted(s, data, fn)
  IN <<merged, updateRequest(merged, requestParams(kind, response, Null, data))>>

\* onFetched on a success response when no onSuccess was given: the states
\* it can leave.  It passes the variable data, which the program declares
\* nowhere, to _updateRequest: the read throws a ReferenceError and nothing
\* is recorded, unless the environment binds a global of that name, here to
\* undefined.
noSuccessHandler(s, requestType, response) ==
  {s, updateRequest(s, requestParams(requestType, response, Null, Undefined))}

\* the handler given to doRequest that is called, with its arguments after
\* dispatch, or none
NoHandler == [handler |-> "none"]

\* onFetched calling onFailure whatever the status of the response
onFetchedCallsOnFailure(req, response) ==
  IF "onFailure" \in req.handlers
  THEN [handler |-> "onFailure", arguments |-> <<Str(req.requestType), response>>]
  ELSE NoHandler

\* onFetched: onSuccess(dispatch, response) for a success status,
\* onFailure(dispatch, requestType, response) for an error status
onFetchedCalls(req, response) ==
  IF response.ok
  THEN IF "onSuccess" \in req.handlers
       THEN [handler |-> "onSuccess", arguments |-> <<response>>]
       ELSE NoHandler
  ELSE IF "onFailure" \in req.handlers
       THEN [handler |-> "onFailure", arguments |-> <<Str(req.requestType), response>>]
       ELSE NoHandler

\* onRequestFailure: onFailure(dispatch, requestType, null, error)
onRequestFailureCalls(req, error) ==
  IF "onFailure" \in req.handlers
  THEN [handler |-> "onFailure", arguments |-> <<Str(req.requestType), Null, error>>]
  ELSE NoHandler

\* the transport resolves with a response: onFetched
TransportResolves(req, response) ==
  LET immediate ==
        \/ response.ok /\ req.kind \in {"delete", "custom"}
        \/ ~response.ok /\ "onFailure" \in req.handlers
      states == IF response.ok /\ req.kind = "delete"
                THEN onSuccess("delete", state, response, req.params, sortFunction)
                ELSE <<>>
  IN /\ req.phase = "sent"
     /\ Observe("resolve", [request |-> req, response |-> response,
                             called |-> onFetchedCalls(req, response),
                             passed |-> SubSeq(states, 1, Len(states) - 1)])
     /\ state' \in
          CASE response.ok /\ req.kind = "delete" ->
                 \* the onSuccess of delete
                 {states[Len(states)]}
            [] response.ok /\ "onSuccess" \notin req.handlers ->
                 noSuccessHandler(state, req.requestType, response)
            [] OTHER ->
                 \* a handler given to doRequest, which records nothing
                 \* itself; or a promise of the body is awaited
                 {state}
     /\ inflight' =
          IF immediate THEN Remove(inflight, req)
          ELSE Replace(inflight, req,
                 [req EXCEPT !.phase = IF response.ok THEN "json" ELSE "text",
                             !.response = response])
     /\ UNCHANGED <<sortFunction, populated, started>>
     /\ UNCHANGED transportVars

\* the transport rejects: onRequestFailure
TransportRejects(req, error) ==
  /\ req.phase = "sent"
  /\ Observe("reject", [request |-> req, error |-> error,
                         called |-> onRequestFailureCalls(req, error)])
  /\ state' = IF "onFailure" \in req.handlers THEN state
              ELSE updateRequest(state, requestParams(req.requestType, Null, error, Undefined))
  /\ inflight' = Remove(inflight, req)
  /\ UNCHANGED <<sortFunction, populated, started>>
  /\ UNCHANGED transportVars

\* response.json() resolves: the onSuccess of fetch, fetchById, create, update
JsonResolves(req, data) ==
  LET records == IF req.kind = "fetch" /\ IsArray(data) THEN data.array ELSE <<data>>
      states == onSuccess(req.kind, state, req.response, data, sortFunction)
  IN /\ req.phase = "json"
     /\ req.kind = "fetch" \/ ~IsArray(data)
     /\ Observe("json", [request |-> req, data |-> data,
                          passed |-> SubSeq(states, 1, Len(states) - 1)])
     /\ state' = states[Len(states)]
     /\ populated' = (populated \/ req.kind \in {"fetch", "fetchById"} \/ records # <<>>)
     /\ inflight' = Remove(inflight, req)
     /\ UNCHANGED <<sortFunction, started>>
     /\ UNCHANGED transportVars

\* response.json() rejects: nothing handles it
JsonRejects(req) ==
  /\ req.phase = "json"
  /\ Observe("jsonRejected", [request |-> req])
  /\ inflight' = Remove(inflight, req)
  /\ UNCHANGED <<state, sortFunction, populated, started>>
  /\ UNCHANGED transportVars

\* response.text() resolves: dispatchError(text)
TextResolves(req, text) ==
  /\ req.phase = "text"
  /\ Observe("text", [request |-> req, text |-> text])
  /\ state' = updateRequest(state,
       dispatchError(requestParams(req.requestType, req.response, Undefined, Undefined),
                     req.response, text))
  /\ inflight' = Remove(inflight, req)
  /\ UNCHANGED <<sortFunction, populated, started>>
  /\ UNCHANGED transportVars

\* response.text() rejects: dispatchError(response.statusText)
TextRejects(req) ==
  /\ req.phase = "text"
  /\ Observe("textRejected", [request |-> req])
  /\ state' = updateRequest(state,
       dispatchError(requestParams(req.requestType, req.response, Undefined, Undefined),
                     req.response, req.response.statusText))
  /\ inflight' = Remove(inflight, req)
  /\ UNCHANGED <<sortFunction, populated, started>>
  /\ UNCHANGED transportVars

\* the promise the thunk returns is that of then(onFetched,
\* onRequestFailure): it settles in the step in which the one or the other
\* returns, whose own promises of the body are returned to nobody
ReturnedPromiseSettles(op) == op \in {"resolve", "reject"}

\* doRequest is given no handler, or both
HandlerSets == {{}, {"onSuccess", "onFailure"}}

\* the params given to delete: an identity value, or the all flag
DeleteParams == {(idField :> v) : v \in IdValues} \cup {("all" :> JsTrue)}

NextRequests ==
  \/ fetch(EmptyObj)
  \/ \E id \in Running(IdValues) : fetchById(id)
  \/ create(EmptyObj)
  \/ update(EmptyObj)
  \/ \E params \in Running(DeleteParams) : delete(params)
  \/ \E handlers \in Running(HandlerSets) : customRequest(handlers)
  \/ \E req \in Running(BagToSet(inflight)), response \in Responses : TransportResolves(req, response)
  \/ \E req \in Running(BagToSet(inflight)), error \in TransportErrors : TransportRejects(req, error)
  \/ \E req \in Running(BagToSet(inflight)), data \in ServerRecords \cup ServerLists : JsonResolves(req, data)
  \/ \E req \in Running(BagToSet(inflight)) : JsonRejects(req)
  \/ \E req \in Running(BagToSet(inflight)), text \in Texts : TextResolves(req, text)
  \/ \E req \in Running(BagToSet(inflight)) : TextRejects(req)
  \/ DispatchClearRequest(Str("fetch"))

SpecRequests == Init /\ [][NextRequests]_vars

(***************************************************************************)
(* clear dispatched while requests are in flight.                          *)
(***************************************************************************)
NextClearing ==
  \/ fetch(EmptyObj)
  \/ \E id \in Running(IdValues) : fetchById(id)
  \/ create(EmptyObj)
  \/ \E req \in Running(BagToSet(inflight)), response \in Responses : TransportResolves(req, response)
  \/ \E req \in Running(BagToSet(inflight)), error \in TransportErrors : TransportRejects(req, error)
  \/ \E req \in Running(BagToSet(inflight)), data \in ServerRecords \cup ServerLists : JsonResolves(req, data)
  \/ \E req \in Running(BagToSet(inflight)), text \in Texts : TextResolves(req, text)
  \/ DispatchClear

SpecClearing == Init /\ [][NextClearing]_vars

(***************************************************************************)
(* The CRUD actions of an instance constructed with any path option: no    *)
(* path, the empty string, or a path of its own.                           *)
(***************************************************************************)
SlicePathOptions ==
  {EmptyObj, ("path" :> <<>>)} \cup {("path" :> o) : o \in {<<"/", "api", "/", "items">>}}

InitActions ==
  /\ state = initialState
  /\ sortFunction = "default"
  /\ populated = FALSE
  /\ inflight = EmptyBag
  /\ started = 0
  /\ fetchFunction = defaultFetchFunction
  /\ instances \in {<<[fetchFunction |-> Undefined, options |-> options,
                        path |-> constructorPath(resource, options)]>> :
                      options \in SlicePathOptions}
  /\ observed = None

NextActions ==
  \/ fetch(EmptyObj)
  \/ \E id \in Running(IdValues) : fetchById(id)
  \/ create(EmptyObj)
  \/ update(EmptyObj)
  \/ \E params \in Running(DeleteParams) : delete(params)

SpecActions == InitActions /\ [][NextActions]_vars

(***************************************************************************)
(* The transport: the constructor's fetchFunction option and               *)
(* Requests.doRequest.  A string is the sequence of its pieces, so that    *)
(* encoding and serialization are computed piece by piece.                 *)
(***************************************************************************)
\* the functions given as options.fetchFunction, or none
CustomFetchFunctions == {[function |-> "customFetchA"], [function |-> "customFetchB"]}

Methods == {"GET", "POST", "PUT", "DELETE"}

\* the keys and the values of params
ParamKeys == {<<"a">>, <<"b">>}
ParamValues == {<<"1">>, <<"2">>, <<"1", "&", "2">>}

\* params, as the list of its entries in the order of Object.keys: every
\* object over the keys, in every order of insertion
Params ==
  {l \in SeqsUpTo([key : ParamKeys, value : ParamValues], Cardinality(ParamKeys)) :
     \A i, j \in 1..Len(l) : i # j => l[i].key # l[j].key}

\* encodeURIComponent: the reserved characters are percent-encoded
RECURSIVE encodeURIComponent(_)
encodeURIComponent(str) ==
  IF str = <<>> THEN <<>>
  ELSE (CASE Head(str) = "&" -> <<"%26">>
          [] Head(str) = "=" -> <<"%3D">>
          [] Head(str) = " " -> <<"%20">>
          [] OTHER -> <<Head(str)>>)
       \o encodeURIComponent(Tail(str))

\* Array.prototype.join
RECURSIVE join(_, _)
join(strs, separator) ==
  IF strs = <<>> THEN <<>>
  ELSE IF Len(strs) = 1 THEN strs[1]
  ELSE strs[1] \o separator \o join(Tail(strs), separator)

\* Object.keys(params).map(key => encodeURIComponent(key) + '=' +
\* encodeURIComponent(params[key])).join('&')
queryString(params) ==
  join([i \in 1..Len(params) |->
          encodeURIComponent(params[i].key) \o <<"=">>
          \o encodeURIComponent(params[i].value)],
       <<"&">>)

\* JSON.stringify of an object of strings
stringify(params) ==
  <<"{">>
  \o join([i \in 1..Len(params) |->
             <<"\"">> \o params[i].key \o <<"\"", ":", "\"">> \o params[i].value
             \o <<"\"">>],
          <<",">>)
  \o <<"}">>

\* the GET branch taken for every method
RequestsDoRequestAlwaysQuery(method, url, params) ==
  [url |-> url \o <<"?">> \o queryString(params),
   options |-> [method |-> method,
                headers |-> [ContentType |-> "application/json"],
                credentials |-> "same-origin"]]

\* Requests.doRequest up to the call of the transport: the url and the
\* options it calls Requests.fetchFunction with
RequestsDoRequest(method, url, params) ==
  IF method = "GET"
  THEN [url |-> url \o <<"?">> \o queryString(params),
        options |-> [method |-> method,
                     headers |-> [ContentType |-> "application/json"],
                     credentials |-> "same-origin"]]
  ELSE [url |-> url,
        options |-> [method |-> method,
                     headers |-> [ContentType |-> "application/json"],
                     credentials |-> "same-origin",
                     body |-> stringify(params)]]

\* the arguments given to the constructor: a resource name, the empty
\* string or none; and no options, null, or an options object with any of
\* createSlice, createSelector, fetchFunction and path
ResourceNames == {Str(resource), Str(""), Undefined}
Hooks == {"createSlice", "createSelector"}
PathOptions == {<<"/", "api", "/", "items">>}
ConstructorOptions ==
  {Undefined, Null}
  \cup {[h \in hooks |-> [function |-> h]] @@ fn @@ p :
          hooks \in SUBSET Hooks,
          fn \in {EmptyObj} \cup {("fetchFunction" :> f) : f \in CustomFetchFunctions},
          p \in {EmptyObj} \cup {("path" :> o) : o \in PathOptions}}

\* what the constructor throws
NothingThrown == [error |-> "none"]
NullOptions == [error |-> "TypeError"]
NoResourceName == [error |-> "Error", message |-> "You must specify a resource name"]
NoHooks == [error |-> "Error", message |-> "You must supply createSlice() and createSelector()"]

\* the constructor asking for one of the two hooks only
constructorThrowsNeedingOneHook(resourceName, options) ==
  LET given == IF options = Undefined THEN EmptyObj ELSE options
  IN IF options = Null THEN NullOptions
     ELSE IF ~Truthy(resourceName) THEN NoResourceName
     ELSE IF ~Truthy(Get(given, "createSlice")) /\ ~Truthy(Get(given, "createSelector"))
     THEN NoHooks
     ELSE NothingThrown

\* the constructor up to the point it throws at, if any: options defaults
\* to {} when it is not given, and a property of null cannot be set
constructorThrows(resourceName, options) ==
  LET given == IF options = Undefined THEN EmptyObj ELSE options
  IN IF options = Null THEN NullOptions
     ELSE IF ~Truthy(resourceName) THEN NoResourceName
     ELSE IF ~Truthy(Get(given, "createSlice")) \/ ~Truthy(Get(given, "createSelector"))
     THEN NoHooks
     ELSE NothingThrown

\* the fetchFunction of the options stored ahead of the tests of the arguments
storedFetchFunctionAhead(thrown, given, current) ==
  IF thrown # NullOptions /\ Truthy(Get(given, "fetchFunction"))
  THEN given.fetchFunction ELSE current

\* Requests.fetchFunction after the constructor: the fetchFunction of the
\* options, if there is one, once the constructor is past its throws
storedFetchFunction(thrown, given, current) ==
  IF thrown = NothingThrown /\ Truthy(Get(given, "fetchFunction"))
  THEN given.fetchFunction ELSE current

\* new ReduxRESTClient(resourceName, options): unless it throws, a
\* fetchFunction given in the options is stored in Requests.fetchFunction
\* and the slice of the instance is created
construct(resourceName, options) ==
  LET given == IF options = Undefined THEN EmptyObj ELSE options
      thrown == constructorThrows(resourceName, options)
  IN /\ Len(instances) < MaxInstances
     /\ Observe("construct", [resourceName |-> resourceName, options |-> options,
                               thrown |-> thrown, slices |-> Len(instances),
                               transport |-> fetchFunction])
     /\ fetchFunction' = storedFetchFunction(thrown, given, fetchFunction)
     /\ instances' = IF thrown = NothingThrown
                      THEN Append(instances,
                             [fetchFunction |-> Get(given, "fetchFunction"),
                              options |-> given,
                              path |-> constructorPath(resourceName.str, given)])
                      ELSE instances
     /\ UNCHANGED <<state, sortFunction, populated, inflight, started>>

\* an instance makes a request: Requests.doRequest calls
\* Requests.fetchFunction(url, options)
makeRequest(i, method, params) ==
  LET call == RequestsDoRequest(method, instances[i].path, params)
  IN /\ Observe("request", [by |-> i, method |-> method, params |-> params,
                            function |-> fetchFunction,
                            url |-> call.url, options |-> call.options])
     /\ UNCHANGED <<state, sortFunction, populated, inflight, started>>
     /\ UNCHANGED transportVars

NextTransport ==
  \/ \E resourceName \in Running(ResourceNames), options \in ConstructorOptions :
       construct(resourceName, options)
  \/ \E i \in Running(1..Len(instances)), method \in Methods, params \in Params :
       makeRequest(i, method, params)

SpecTransport == Init /\ [][NextTransport]_vars

(***************************************************************************)
(* Properties of the reducers.                                             *)
(***************************************************************************)
UpsertOps == {"read", "created", "updated"}

IdOf(rec) == Get(rec, idField)
Ids(list) == {IdOf(list[i]) : i \in 1..Len(list)}

\* the list is non-decreasing under the comparator
Sorted(list, fn) ==
  \A i, j \in 1..Len(list) : i < j => Compare(fn, list[i], list[j]) <= 0

\* the identity values, which are numbers, ascend
Ascending(list) ==
  \A i, j \in 1..Len(list) : i < j => IdOf(list[i]).num < IdOf(list[j]).num

C2_SortedAfterMutation ==
  (\/ observed.op \in UpsertOps \cup {"clear"}
   \/ /\ observed.op = "deleted"
      /\ \/ observed.payload = ("all" :> JsTrue)
         \/ \E v \in IdValues : observed.payload = (idField :> v))
  => /\ Sorted(state.records, sortFunction)
     /\ sortFunction = "default" => Ascending(state.records)

\* the properties the records of the batch with the identity value give, each
\* with the value the last of them gives it
Incoming(batch, v) == SelectSeq(batch, LAMBDA rec : IdOf(rec) = v)
Given(batch, v) == UNION {DOMAIN Incoming(batch, v)[k] : k \in 1..Len(Incoming(batch, v))}
LastGiven(batch, v, p) ==
  LET inc == Incoming(batch, v)
      k == CHOOSE i \in 1..Len(inc) :
             /\ p \in DOMAIN inc[i]
             /\ \A j \in 1..Len(inc) : p \in DOMAIN inc[j] => j <= i
  IN inc[k][p]

\* C3: when read, created or updated receives records whose identity value is
\* that of an existing record, the existing record gets every property they
\* carry and keeps the value of every property they do not carry
C3_PartialMerge ==
  observed.op \in UpsertOps =>
    \A i \in 1..Len(observed.before.records) :
      LET old == observed.before.records[i]
          v == IdOf(old)
          batch == observed.payload
      IN v \in Ids(batch) =>
           \E j \in 1..Len(state.records) :
             LET new == state.records[j]
             IN /\ IdOf(new) = v
                /\ DOMAIN new = DOMAIN old \cup Given(batch, v)
                /\ \A p \in DOMAIN new :
                     new[p] = IF p \in Given(batch, v)
                              THEN LastGiven(batch, v, p) ELSE old[p]

\* created({_id: 1, name: 'X'}) and then updated({_id: 1}) have left the
\* record {_id: 1, name: 'X'}
C3_Witness ==
  /\ observed.op = "updated"
  /\ observed.payload = <<(idField :> Num(1))>>
  /\ observed.before.records = <<(idField :> Num(1)) @@ ("name" :> Str("X"))>>
  /\ state.records = <<(idField :> Num(1)) @@ ("name" :> Str("X"))>>

\* C4: read, created and updated leave in the collection the identity values
\* it had and those of the batch, and leave every record whose identity value
\* is not in the batch as it was
C4_UpsertFrame ==
  observed.op \in UpsertOps =>
    /\ Ids(state.records) = Ids(observed.before.records) \cup Ids(observed.payload)
    /\ \A i \in 1..Len(observed.before.records) :
         IdOf(observed.before.records[i]) \notin Ids(observed.payload) =>
           \E j \in 1..Len(state.records) : state.records[j] = observed.before.records[i]

\* a record was appended beside one that the batch did not name
C4_Witness ==
  /\ observed.op \in UpsertOps
  /\ observed.before.records # <<>> /\ observed.payload # <<>>
  /\ Ids(observed.payload) \cap Ids(observed.before.records) = {}
  /\ Len(state.records) = Len(observed.before.records) + 1

\* C5: deleted, given the identity value of a record of the collection,
\* removes that record, leaves every other record as it was, and leaves the
\* rest sorted
C5_DeletedById ==
  \A v \in IdValues :
    /\ observed.op = "deleted" /\ observed.payload = (idField :> v)
    /\ v \in Ids(observed.before.records)
    => /\ v \notin Ids(state.records)
       /\ \A i \in 1..Len(observed.before.records) :
            IdOf(observed.before.records[i]) # v =>
              \E j \in 1..Len(state.records) : state.records[j] = observed.before.records[i]
       /\ Len(state.records) = Len(observed.before.records) - 1
       /\ Sorted(state.records, sortFunction)

\* C6: deleted, given the all flag, empties the collection and leaves
\* isLoaded and the requests as they were
C6_DeletedAll ==
  observed.op = "deleted" /\ observed.payload = ("all" :> JsTrue) =>
    /\ state.records = <<>>
    /\ state.isLoaded = observed.before.isLoaded
    /\ state.requests = observed.before.requests

\* a collection of more than one record was emptied by deleted with the all
\* flag, with isLoaded set and a request recorded
C6_Witness ==
  /\ observed.op = "deleted" /\ observed.payload = ("all" :> JsTrue)
  /\ Len(observed.before.records) > 1
  /\ state.records = <<>>
  /\ state.isLoaded
  /\ state.requests["fetch"] \notin {Undefined, Null}

\* C7: clear leaves isLoaded false, no record and no request, whatever the
\* state was
C7_Clear ==
  observed.op = "clear" =>
    /\ state.isLoaded = FALSE
    /\ state.records = <<>>
    /\ \A t \in RequestTypes : state.requests[t] = Undefined

\* clear has acted on a loaded slice with records and a failed request
C7_Witness ==
  /\ observed.op = "clear"
  /\ observed.before.isLoaded
  /\ observed.before.records # <<>>
  /\ observed.before.requests["fetch"] \notin {Undefined, Null}
  /\ observed.before.requests["fetch"].error # Null
  /\ state = initialState

\* C8: isLoaded is false initially, true after every read, and once true it
\* stays true under every transition but clear
C8_IsLoaded ==
  /\ observed = None /\ ~populated => ~state.isLoaded
  /\ observed.op = "read" => state.isLoaded
  /\ observed.op \notin {"none", "clear"} /\ observed.before.isLoaded => state.isLoaded

\* isLoaded has outlived the deletion of every record
C8_Witness ==
  /\ observed.op = "deleted" /\ observed.before.records # <<>>
  /\ observed.before.isLoaded
  /\ state.records = <<>> /\ state.isLoaded

\* C9: isLoaded is true exactly if the slice has been populated with records
\* since the initial state or the last clear
C9_IsLoadedIffPopulated == state.isLoaded = populated

(***************************************************************************)
(* Properties of the request lifecycle.                                    *)
(***************************************************************************)
\* C10: starting a request records the request type as pending, with no
\* statusCode, data or error, whatever the slice held for it, and the
\* transport is called with that recorded
C10_StartRecordsPending ==
  observed.op = "start" =>
    /\ state.requests[observed.payload.requestType] = PendingRequest
    /\ observed.payload.call.seen = PendingRequest

\* a request was started for a request type whose last request had failed
C10_Witness ==
  /\ observed.op = "start"
  /\ observed.before.requests[observed.payload.requestType] \notin {Undefined, Null}
  /\ observed.before.requests[observed.payload.requestType].status = Str("failed")
  /\ observed.before.requests[observed.payload.requestType].error # Null
  /\ state.requests[observed.payload.requestType] = PendingRequest

\* the observed transition is a success handler of a CRUD action; its
\* response, and the payload it records as data
SuccessObserved ==
  \/ observed.op = "json"
  \/ /\ observed.op = "resolve"
     /\ observed.payload.response.ok
     /\ observed.payload.request.kind = "delete"
SuccessResponse ==
  IF observed.op = "json" THEN observed.payload.request.response
  ELSE observed.payload.response
SuccessData ==
  IF observed.op = "json" THEN observed.payload.data
  ELSE observed.payload.request.params
SucceededRequest(response, data) ==
  [status |-> Str("succeeded"), statusCode |-> response.status, data |-> data,
   error |-> Null]

\* C11: on a response with success status, fetch, fetchById, create, update
\* and delete first apply their mutation of the collection, the requests
\* still as they were, and then record the request as succeeded with the
\* status of the response as statusCode and the payload as data, the
\* collection then already holding what the response gave
C11_MutationThenSucceeded ==
  SuccessObserved =>
    LET kind == observed.payload.request.kind
        st == observed.payload.passed \o <<state>>
        data == SuccessData
        records == IF kind = "fetch" /\ IsArray(data) THEN data.array ELSE <<data>>
    IN /\ Len(st) = 2
       /\ st[1].requests = observed.before.requests
       /\ st[1].records =
            IF kind = "delete"
            THEN deleted(observed.before, data, sortFunction).records
            ELSE Sort(createOrUpdateAll(observed.before.records, records), sortFunction)
       /\ kind # "delete" =>
            \A k \in 1..Len(records) :
              \E j \in 1..Len(st[1].records) : st[1].records[j] = records[k]
       /\ kind = "delete" /\ Truthy(Get(data, idField)) =>
            Get(data, idField) \notin Ids(st[1].records)
       /\ kind = "delete" /\ data = ("all" :> JsTrue) => st[1].records = <<>>
       /\ st[2].records = st[1].records
       /\ st[2].requests[kind] = SucceededRequest(SuccessResponse, data)

\* a fetch has put the two records of a list into the empty collection while
\* the request was still pending, and has then recorded it as succeeded
C11_Witness ==
  /\ observed.op = "json"
  /\ observed.payload.request.kind = "fetch"
  /\ observed.before.records = <<>>
  /\ Len(observed.payload.passed[1].records) = 2
  /\ observed.payload.passed[1].requests["fetch"] = PendingRequest
  /\ state.requests["fetch"].status = Str("succeeded")
  /\ state.requests["fetch"].statusCode = Num(200)
  /\ state.requests["fetch"].data = observed.payload.data

\* the observed transition is the last step of a request of a CRUD action:
\* the transport rejected, the body of the response was read or could not
\* be read, or the success handler of delete ran
Settles ==
  /\ observed.op \in {"resolve", "reject", "json", "jsonRejected", "text", "textRejected"}
  /\ observed.payload.request.kind # "custom"
  /\ observed.op = "resolve" =>
       observed.payload.response.ok /\ observed.payload.request.kind = "delete"

TerminalStatuses == {Str("succeeded"), Str("failed")}

\* C12: whatever way a request of a CRUD action ends (the transport rejects,
\* the body of an error response is read or cannot be read, the body of a
\* success response is parsed or cannot be parsed), its request type is
\* recorded as succeeded or failed when it has ended
C12_EveryOutcomeTerminal ==
  Settles =>
    /\ state.requests[observed.payload.request.requestType] \notin {Undefined, Null}
    /\ state.requests[observed.payload.request.requestType].status \in TerminalStatuses

\* C13: a request started by doRequest with no success handler, whose
\* response has a success status, is recorded as succeeded with the status of
\* the response as statusCode
C13_NoHandlerSucceeded ==
  /\ observed.op = "resolve"
  /\ observed.payload.request.kind = "custom"
  /\ "onSuccess" \notin observed.payload.request.handlers
  /\ observed.payload.response.ok
  => /\ state.requests["custom"] \notin {Undefined, Null}
     /\ state.requests["custom"].status = Str("succeeded")
     /\ state.requests["custom"].statusCode = observed.payload.response.status

\* C14: when the transport rejects, and no onFailure handler was given, the
\* request type is recorded as failed with the message of the rejection as
\* error.message, and with no statusCode and no data
C14_TransportFailure ==
  observed.op = "reject" /\ "onFailure" \notin observed.payload.request.handlers =>
    state.requests[observed.payload.request.requestType] =
      [status |-> Str("failed"), statusCode |-> Null, data |-> Undefined,
       error |-> [message |-> observed.payload.error.message]]

\* the transport has rejected a fetch that was pending, and the message of
\* the rejection is recorded
C14_Witness ==
  /\ observed.op = "reject"
  /\ observed.payload.request.kind = "fetch"
  /\ observed.before.requests["fetch"] = PendingRequest
  /\ state.requests["fetch"].status = Str("failed")
  /\ state.requests["fetch"].error = [message |-> Str("Failed to fetch")]

\* the message by the priority of the claim: the text of the body if it was
\* read and is not empty, else the entry of the override table for the
\* status if there is one, else the statusText of the response
MessageByPriority ==
  LET response == observed.payload.request.response
  IN IF observed.op = "text" /\ observed.payload.text # Str("")
     THEN observed.payload.text
     ELSE IF statusTextOverride(response.status) # Undefined
     THEN statusTextOverride(response.status)
     ELSE response.statusText

\* C15: when the response has an error status, the request type is recorded
\* as failed with the status of the response as statusCode and the message
\* chosen by that priority, whether the body was read or could not be read
C15_ErrorResponse ==
  observed.op \in {"text", "textRejected"} =>
    LET request == state.requests[observed.payload.request.requestType]
    IN /\ request \notin {Undefined, Null}
       /\ request.status = Str("failed")
       /\ request.statusCode = observed.payload.request.response.status
       /\ request.error = [message |-> MessageByPriority]

\* the observed transition is the end of a request in which the library
\* itself records the outcome
OutcomeRecorded ==
  \/ observed.op \in {"json", "text", "textRejected"}
  \/ observed.op = "reject" /\ "onFailure" \notin observed.payload.request.handlers
  \/ /\ observed.op = "resolve"
     /\ observed.payload.response.ok
     /\ observed.payload.request.kind = "delete"

\* C16: the outcome of every request is recorded when it settles, whatever
\* other requests of its type are in flight and whenever they were started:
\* the request type then holds the terminal state of the response that
\* settled last
C16_LastSettledWins ==
  OutcomeRecorded =>
    LET request == state.requests[observed.payload.request.requestType]
    IN /\ request \notin {Undefined, Null}
       /\ SuccessObserved => request = SucceededRequest(SuccessResponse, SuccessData)
       /\ observed.op = "reject" =>
            /\ request.status = Str("failed")
            /\ request.error = [message |-> observed.payload.error.message]
       /\ observed.op \in {"text", "textRejected"} =>
            /\ request.status = Str("failed")
            /\ request.data = Undefined
            /\ request.error # Null

\* the response of a request has overwritten the pending state of a request
\* of its type that was started later and is still in flight
C16_Witness ==
  /\ OutcomeRecorded
  /\ ~observed.payload.request.behind
  /\ \E req \in DOMAIN inflight :
       req.requestType = observed.payload.request.requestType /\ req.behind
  /\ observed.before.requests[observed.payload.request.requestType] = PendingRequest
  /\ state.requests[observed.payload.request.requestType].status \in TerminalStatuses

\* the request type of the observed step of a request
ObservedRequestType ==
  IF observed.op = "start" THEN observed.payload.requestType
  ELSE observed.payload.request.requestType

RequestSteps ==
  {"start", "resolve", "reject", "json", "jsonRejected", "text", "textRejected"}

\* C17: starting a request, and every step in which it settles, leaves the
\* entry of every other request type as it was
C17_OtherTypesUnchanged ==
  observed.op \in RequestSteps =>
    \A t \in RequestTypes \ {ObservedRequestType} :
      state.requests[t] = observed.before.requests[t]

\* a request has been recorded as ended while a request of another type was
\* in flight, whose entry is pending as before
C17_Witness ==
  /\ OutcomeRecorded
  /\ state.requests[ObservedRequestType] # observed.before.requests[ObservedRequestType]
  /\ \E req \in DOMAIN inflight :
       /\ req.requestType # ObservedRequestType
       /\ observed.before.requests[req.requestType] = PendingRequest
       /\ state.requests[req.requestType] = PendingRequest

(***************************************************************************)
(* Properties of the transport.                                            *)
(***************************************************************************)
\* the transport of an instance by its own options: the fetchFunction given
\* to it, or the default
OwnTransport(i) ==
  IF Truthy(instances[i].fetchFunction) THEN instances[i].fetchFunction
  ELSE defaultFetchFunction

\* C18: every request of an instance calls the transport of that instance's
\* own options, whatever other instances were constructed before or after it
C18_TransportPerInstance ==
  observed.op = "request" => observed.payload.function = OwnTransport(observed.payload.by)

\* C19: every request of an instance constructed with a fetchFunction calls
\* that function, and not the default, with the url and the options
\* Requests.doRequest builds for the default
C19_CustomFetchFunction ==
  observed.op = "request" /\ Truthy(instances[observed.payload.by].fetchFunction) =>
    /\ observed.payload.function = instances[observed.payload.by].fetchFunction
    /\ observed.payload.function # defaultFetchFunction
    /\ observed.payload.url =
         RequestsDoRequest(observed.payload.method, instances[observed.payload.by].path,
                           observed.payload.params).url
    /\ observed.payload.options =
         RequestsDoRequest(observed.payload.method, instances[observed.payload.by].path,
                           observed.payload.params).options

\* the number of pieces of the string that are the character
Count(str, char) == Cardinality({i \in 1..Len(str) : str[i] = char})

\* C20: a GET request sends its params as the query string of the url, one
\* percent-encoded key=value pair for each key in the order of the keys,
\* joined by &, and sends no body; every other method leaves the url as it
\* is and sends the params serialized as JSON in the body; every request has
\* the Content-Type application/json and same-origin credentials
C20_QueryOrBody ==
  observed.op = "request" =>
    LET params == observed.payload.params
        url == observed.payload.url
        options == observed.payload.options
    IN /\ options.method = observed.payload.method
       /\ options.headers = [ContentType |-> "application/json"]
       /\ options.credentials = "same-origin"
       /\ observed.payload.method = "GET" =>
            /\ url = instances[observed.payload.by].path \o <<"?">> \o queryString(params)
            /\ Count(url, "=") = Len(params)
            /\ Count(url, "&") = IF params = <<>> THEN 0 ELSE Len(params) - 1
            /\ "body" \notin DOMAIN options
       /\ observed.payload.method # "GET" =>
            /\ url = instances[observed.payload.by].path
            /\ "body" \in DOMAIN options
            /\ options.body = stringify(params)

\* a GET request with the params {a: '1', b: '2'} has called the transport
\* with the query a=1&b=2 and no body
C20_Witness ==
  /\ observed.op = "request"
  /\ observed.payload.method = "GET"
  /\ observed.payload.params = <<[key |-> <<"a">>, value |-> <<"1">>],
                                 [key |-> <<"b">>, value |-> <<"2">>]>>
  /\ observed.payload.url = path \o <<"?", "a", "=", "1", "&", "b", "=", "2">>
  /\ DOMAIN observed.payload.options = {"method", "headers", "credentials"}

(***************************************************************************)
(* Properties of the CRUD actions and of the constructor.                  *)
(***************************************************************************)
CrudKinds == {"fetch", "fetchById", "create", "update", "delete"}

\* the method each CRUD action is documented to use
DocumentedMethod ==
  [kind \in CrudKinds |->
     CASE kind \in {"fetch", "fetchById"} -> "GET"
       [] kind = "create" -> "POST"
       [] kind = "update" -> "PUT"
       [] kind = "delete" -> "DELETE"]

\* the path of the instance of the slice by its options: the path option
\* when one is given, or / followed by the resource name
DocumentedPath ==
  LET options == instances[1].options
  IN IF "path" \in DOMAIN options /\ Len(options.path) > 0 THEN options.path
     ELSE <<"/">> \o <<resource>>

Holds(list, v) == \E i \in 1..Len(list) : LooseEq(Get(list[i], idField), v)

\* C22: a delete whose params carry the identity value of a record of the
\* collection leaves the collection unchanged when it starts, and when its
\* response arrives with a success status the record is gone from the
\* collection and the delete request type is succeeded
C22_DeleteRemovesRecord ==
  /\ observed.op = "start" /\ observed.payload.kind = "delete" =>
       /\ state.records = observed.before.records
       /\ state.isLoaded = observed.before.isLoaded
  /\ /\ observed.op = "resolve"
     /\ observed.payload.request.kind = "delete"
     /\ observed.payload.response.ok
     /\ idField \in DOMAIN observed.payload.request.params
     /\ Holds(observed.before.records, observed.payload.request.params[idField])
     => /\ ~Holds(state.records, observed.payload.request.params[idField])
        /\ state.requests["delete"].status = Str("succeeded")

\* the entry that holds exactly the fields a payload gives: a field that is
\* not given is absent, null for statusCode and error and undefined for data
ExactEntry(payload) ==
  [status |-> payload.status,
   statusCode |-> IF "statusCode" \in DOMAIN payload THEN payload.statusCode ELSE Null,
   data |-> IF "data" \in DOMAIN payload THEN payload.data ELSE Undefined,
   error |-> IF "error" \in DOMAIN payload THEN payload.error ELSE Null]

\* C23: updateRequest replaces the entry of its request type by exactly the
\* fields of its payload, nothing of the entry before it surviving, and
\* leaves the entries of the other request types as they were
C23_UpdateRequestReplaces ==
  observed.op = "updateRequest" =>
    /\ state.requests[observed.payload.requestType] = ExactEntry(observed.payload)
    /\ \A t \in RequestTypes \ {observed.payload.requestType} :
         state.requests[t] = observed.before.requests[t]
    /\ state.records = observed.before.records
    /\ state.isLoaded = observed.before.isLoaded

\* a pending payload has replaced a succeeded entry that held a status code
\* and data, while the entry of another request type is pending
C23_Witness ==
  /\ observed.op = "updateRequest"
  /\ observed.payload = PendingPayload("fetch")
  /\ observed.before.requests["fetch"] =
       [status |-> Str("succeeded"), statusCode |-> Num(200),
        data |-> JsArray(<<>>), error |-> Null]
  /\ observed.before.requests["create"] = PendingRequest
  /\ state.requests["fetch"] = PendingRequest
  /\ state.requests["create"] = PendingRequest

\* C24: clearRequest of a request type leaves its entry absent, so that
\* getRequestStatus and getError of the request type give what they give
\* for a request type that was never started, and leaves the entries of the
\* other request types, the collection and isLoaded as they were
C24_ClearRequest ==
  observed.op = "clearRequest" /\ ~observed.payload.thrown =>
    LET requestType == observed.payload.requestType.str
    IN /\ getRequest(state, requestType) \in {Null, Undefined}
       /\ getRequestStatus(state, requestType) = Null
       /\ getError(state, requestType) = Null
       /\ getRequestStatus(state, requestType) = getRequestStatus(initialState, requestType)
       /\ getError(state, requestType) = getError(initialState, requestType)
       /\ \A t \in RequestTypes \ {requestType} :
            state.requests[t] = observed.before.requests[t]
       /\ state.records = observed.before.records
       /\ state.isLoaded = observed.before.isLoaded

\* the failed fetch request was cleared, its error gone, while the entry of
\* create is pending as before
C24_Witness ==
  /\ observed.op = "clearRequest"
  /\ observed.payload.requestType = Str("fetch")
  /\ Truthy(observed.before.requests["fetch"])
  /\ getError(observed.before, "fetch") = [message |-> Str("Page/Resource Not Found")]
  /\ getError(state, "fetch") = Null
  /\ state.requests["create"] = PendingRequest

\* C25: getError and clearRequest given no request type throw: no selector
\* is made and no action is dispatched, and the state is as it was
C25_RequestTypeRequired ==
  /\ /\ observed.op = "select"
     /\ observed.payload.selector = "getError"
     /\ observed.payload.argument \in NoRequestTypes
     => /\ observed.payload.thrown
        /\ observed.payload.result = Undefined
        /\ state = observed.before
  /\ observed.op = "clearRequest" /\ observed.payload.requestType \in NoRequestTypes =>
       /\ observed.payload.thrown
       /\ state = observed.before

\* clearRequest was called with the empty string while the fetch request
\* was failed, and the entry is as it was
C25_Witness ==
  /\ observed.op = "clearRequest"
  /\ observed.payload.requestType = Str("")
  /\ observed.payload.thrown
  /\ getRequestStatus(state, "fetch") = Str("failed")

\* the constructor is given no resource name, or not both of the hooks
Misconfigured(resourceName, options) ==
  \/ resourceName \in {Undefined, Str("")}
  \/ options \in {Undefined, Null}
  \/ ~(Hooks \subseteq DOMAIN options)

\* C26: a constructor given no resource name, or not both createSlice and
\* createSelector, throws: no slice is created and the transport stays as
\* it was.  What it throws is an Error that names what is missing, unless
\* its options are null.
C26_ConstructorThrows ==
  observed.op = "construct"
  /\ Misconfigured(observed.payload.resourceName, observed.payload.options) =>
    /\ observed.payload.thrown # NothingThrown
    /\ Len(instances) = observed.payload.slices
    /\ observed.payload.options # Null =>
         observed.payload.thrown \in {NoResourceName, NoHooks}

\* a constructor given a resource name and createSlice only has thrown, and
\* the slice of the first instance is the only one
C26_Witness ==
  /\ observed.op = "construct"
  /\ observed.payload.resourceName = Str(resource)
  /\ observed.payload.options \notin {Undefined, Null}
  /\ DOMAIN observed.payload.options = {"createSlice"}
  /\ observed.payload.thrown = NoHooks
  /\ Len(instances) = 1

(***************************************************************************)
(* Properties of the selectors.                                            *)
(***************************************************************************)
\* the record has, for every key of the conditions, a field loosely equal
\* to the value of the key
Matches(rec, conditions) ==
  \A key \in DOMAIN conditions : LooseEq(Get(rec, key), conditions[key])

\* C27: where gives the records of the collection that match every key of
\* the conditions, and only those, in the order of the collection; with no
\* conditions it gives the whole collection; the state is as it was
C27_Where ==
  observed.op = "select" /\ observed.payload.selector = "where" =>
    LET conditions == observed.payload.argument
        result == observed.payload.result.array
    IN /\ result = SelectSeq(state.records, LAMBDA rec : Matches(rec, conditions))
       /\ conditions = EmptyObj => result = state.records
       /\ state = observed.before

\* where({_id: '1', name: 'X'}) on a collection of two records named X has
\* given the one record whose identity is the number 1
C27_Witness ==
  /\ observed.op = "select"
  /\ observed.payload.selector = "where"
  /\ observed.payload.argument = (idField :> Str("1")) @@ ("name" :> Str("X"))
  /\ Len(state.records) = 2
  /\ \A i \in 1..2 : Get(state.records[i], "name") = Str("X")
  /\ observed.payload.result = JsArray(<<(idField :> Num(1)) @@ ("name" :> Str("X"))>>)

\* C28: findBy gives the first record of where for the same conditions, or
\* null when where gives none; get gives the one record of the collection
\* whose identity is loosely equal to the id, which is the record findBy
\* gives for the identity, or undefined when there is none
C28_FindByAndGet ==
  /\ observed.op = "select" /\ observed.payload.selector = "findBy" =>
       LET list == where(state, observed.payload.argument)
       IN /\ list # <<>> => observed.payload.result = list[1]
          /\ list = <<>> => observed.payload.result = Null
          /\ state = observed.before
  /\ observed.op = "select" /\ observed.payload.selector = "get" =>
       LET id == observed.payload.argument
           owners == {i \in 1..Len(state.records) : LooseEq(Get(state.records[i], idField), id)}
       IN /\ owners = {} => observed.payload.result = Undefined
          /\ owners # {} =>
               /\ Cardinality(owners) = 1
               /\ \A i \in owners : observed.payload.result = state.records[i]
               /\ observed.payload.result = findBy(state, (idField :> id))
          /\ state = observed.before

\* findBy({name: 'X'}) on a collection of two records named X has given the
\* first of them
C28_Witness ==
  /\ observed.op = "select"
  /\ observed.payload.selector = "findBy"
  /\ observed.payload.argument = ("name" :> Str("X"))
  /\ Len(state.records) = 2
  /\ \A i \in 1..2 : Get(state.records[i], "name") = Str("X")
  /\ observed.payload.result = state.records[1]

(***************************************************************************)
(* Properties of the comparator and of failed requests.                    *)
(***************************************************************************)
\* C29: setSortFunction leaves the collection, isLoaded and the requests as
\* they were; after it, a read, created or updated, or a deleted by an
\* identity value, leaves the whole collection ordered by the comparator
\* then in use
C29_SortFunctionReplaced ==
  /\ observed.op = "setSortFunction" =>
       /\ state = observed.before
       /\ sortFunction = observed.payload
  /\ (\/ observed.op \in UpsertOps
      \/ /\ observed.op = "deleted"
         /\ \E v \in IdValues : observed.payload = (idField :> v))
     => Sorted(state.records, sortFunction)

\* the steps a request that fails goes through: its start, the rejection
\* of the transport, a response with an error status, and the text of that
\* response read or not
FailureStep ==
  \/ observed.op \in {"start", "reject", "text", "textRejected"}
  \/ observed.op = "resolve" /\ ~observed.payload.response.ok

\* C30: no step of a request that fails changes the collection or isLoaded,
\* or the entry of another request type: from its start to its failure the
\* request changes the entry of its own request type only
C30_FailureLeavesCollection ==
  FailureStep =>
    /\ state.records = observed.before.records
    /\ state.isLoaded = observed.before.isLoaded
    /\ \A t \in RequestTypes \ {ObservedRequestType} :
         state.requests[t] = observed.before.requests[t]

\* a fetchById has failed with the text of an error response while the
\* collection, loaded before, holds a record as it did
C30_Witness ==
  /\ observed.op = "text"
  /\ observed.payload.request.kind = "fetchById"
  /\ observed.before.requests["fetchById"] = PendingRequest
  /\ state.requests["fetchById"].status = Str("failed")
  /\ state.isLoaded
  /\ Len(state.records) > 0
  /\ state.records = observed.before.records

(***************************************************************************)
(* Properties of the table of requests under the built-in actions.         *)
(***************************************************************************)
\* the entry is that of a request that is pending, succeeded or failed with
\* the fields its status allows
WellFormedEntry(entry) ==
  \/ entry \in {Undefined, Null}
  \/ /\ entry.status = Str("pending")
     /\ entry.statusCode = Null /\ entry.data = Undefined /\ entry.error = Null
  \/ /\ entry.status = Str("succeeded")
     /\ entry.error = Null
     /\ entry.statusCode = OkResponse.status
  \/ /\ entry.status = Str("failed")
     /\ entry.error \notin {Undefined, Null}
     /\ "message" \in DOMAIN entry.error
     /\ IsStr(entry.error.message)

\* C31: the entry of every request type of the built-in actions is absent,
\* or pending with no status code, data or error, or succeeded with no error
\* and the status code of the response, or failed with an error that has a
\* message; a failure recorded for a response has the status code of the
\* response, and a failure recorded for a rejection of the transport has none
C31_EntriesWellFormed ==
  /\ \A t \in CrudKinds : WellFormedEntry(state.requests[t])
  /\ observed.op \in {"text", "textRejected"} =>
       state.requests[observed.payload.request.requestType].statusCode
         = observed.payload.request.response.status
  /\ observed.op = "reject" /\ observed.payload.request.kind \in CrudKinds =>
       state.requests[observed.payload.request.requestType].statusCode = Null

\* C32: read, created, updated and deleted leave the table of requests as
\* it was, and updateRequest and clearRequest leave the collection and
\* isLoaded as they were
C32_HalvesFramed ==
  /\ observed.op \in {"read", "created", "updated", "deleted"} =>
       state.requests = observed.before.requests
  /\ observed.op \in {"updateRequest", "clearRequest"} =>
       /\ state.records = observed.before.records
       /\ state.isLoaded = observed.before.isLoaded

\* a read has changed the collection while the fetch request is failed as
\* before
C32_Witness ==
  /\ observed.op = "read"
  /\ state.records # observed.before.records
  /\ getRequestStatus(observed.before, "fetch") = Str("failed")
  /\ state.requests = observed.before.requests

\* doRequest was given an onSuccess and an onFailure of the caller
CustomHandlers(req) ==
  req.kind = "custom" /\ req.handlers = {"onSuccess", "onFailure"}

\* C33: when doRequest is given handlers, a success response calls
\* onSuccess with the response and nothing else, an error response calls
\* onFailure with the request type and the response, a rejection of the
\* transport calls onFailure with the request type, null and the error, and
\* none of the three records anything: the state is as it was, the entry of
\* the request type as the start or another request left it
C33_HandlersRecordNothing ==
  /\ observed.op = "resolve" /\ CustomHandlers(observed.payload.request) =>
       /\ observed.payload.response.ok =>
            observed.payload.called =
              [handler |-> "onSuccess", arguments |-> <<observed.payload.response>>]
       /\ ~observed.payload.response.ok =>
            observed.payload.called =
              [handler |-> "onFailure",
               arguments |-> <<Str("custom"), observed.payload.response>>]
       /\ state = observed.before
  /\ observed.op = "reject" /\ CustomHandlers(observed.payload.request) =>
       /\ observed.payload.called =
            [handler |-> "onFailure",
             arguments |-> <<Str("custom"), Null, observed.payload.error>>]
       /\ state = observed.before
  /\ observed.op = "start" /\ observed.payload.kind = "custom" =>
       state.requests["custom"] = PendingRequest

\* the one request in flight, given handlers, was answered with an error
\* status: onFailure was called and the entry is pending still
C33_Witness ==
  /\ observed.op = "resolve"
  /\ CustomHandlers(observed.payload.request)
  /\ ~observed.payload.response.ok
  /\ observed.payload.called.handler = "onFailure"
  /\ inflight = EmptyBag /\ started = 1
  /\ state.requests["custom"] = PendingRequest

(***************************************************************************)
(* Algebraic properties of the upserts.                                    *)
(***************************************************************************)
\* the reducer of an upsert
Upsert(op, s, batch, fn) ==
  CASE op = "read" -> read(s, [records |-> batch], fn)
    [] op = "created" -> created(s, [records |-> batch], fn)
    [] op = "updated" -> updated(s, [records |-> batch], fn)

\* C34: a read, created or updated dispatched again with the batch it was
\* just dispatched with leaves the collection, and the whole state, as the
\* first dispatch left it
C34_UpsertIdempotent ==
  observed.op \in UpsertOps =>
    /\ Upsert(observed.op, state, observed.payload, sortFunction).records = state.records
    /\ Upsert(observed.op, state, observed.payload, sortFunction) = state

\* a batch of two records, which changed a collection that held one of them
\* under another name, changes nothing when it is dispatched again
C34_Witness ==
  /\ observed.op = "updated"
  /\ Len(observed.payload) = 2
  /\ Len(observed.before.records) = 1
  /\ Len(state.records) = 2
  /\ \E i \in 1..2 : /\ IdOf(observed.payload[i]) = IdOf(observed.before.records[1])
                       /\ observed.payload[i] # observed.before.records[1]
  /\ state.records[1] # observed.before.records[1]
  /\ state.records[2] # observed.before.records[1]
  /\ Upsert("updated", state, observed.payload, sortFunction) = state

\* the collection after the two upserts, the first one first, under the
\* default comparator
Both(op1, batch1, op2, batch2, s) ==
  Upsert(op2, Upsert(op1, s, batch1, "default"), batch2, "default").records

C36_PromiseAfterTerminal ==
  /\ ReturnedPromiseSettles(observed.op)
  /\ observed.payload.request.kind \in CrudKinds
  /\ \A req \in DOMAIN inflight :
       req.requestType = observed.payload.request.requestType =>
         /\ inflight[req] = 1
         /\ [req EXCEPT !.phase = "sent", !.response = Undefined] = observed.payload.request
  => getRequestStatus(state, observed.payload.request.requestType) \in TerminalStatuses

\* the state before the observed step is the state clear leaves, with a
\* request in flight that was started before the clear: every request type
\* is without an entry, so that no request was started since
ClearedInFlight ==
  /\ observed.op \in {"json", "text", "reject"}
  /\ observed.before = initialState

\* C37: clear leaves the requests in flight as they are, and a request
\* that was started before a clear and settles after it, no request having
\* been started since, is applied to the cleared state as to any other: a
\* parsed body is merged into the collection, which holds its records, a
\* fetch or fetchById sets isLoaded, and the request type regains an entry,
\* succeeded or failed
C37_ClearDoesNotCancel ==
  /\ observed.op = "clear" => inflight = observed.payload.inflight
  /\ ClearedInFlight =>
       LET request == observed.payload.request
       IN /\ getRequestStatus(state, request.requestType) \in TerminalStatuses
          /\ observed.op = "json" =>
               LET data == observed.payload.data
                   records == IF IsArray(data) THEN data.array ELSE <<data>>
               IN /\ Len(state.records) = Len(records)
                  /\ \A i \in 1..Len(records) :
                       \E j \in 1..Len(state.records) : state.records[j] = records[i]
                  /\ request.kind \in {"fetch", "fetchById"} => state.isLoaded

\* a fetch was started, the slice was cleared, and the list of the response
\* was parsed after that: the cleared collection holds two records again,
\* isLoaded is true again and fetch is succeeded, with one request started
C37_Witness ==
  /\ ClearedInFlight
  /\ observed.op = "json"
  /\ observed.payload.request.kind = "fetch"
  /\ started = 1
  /\ Len(state.records) = 2
  /\ state.isLoaded
  /\ getRequestStatus(state, "fetch") = Str("succeeded")

C39_FailedConstructionKeepsTransport ==
  observed.op = "construct"
  /\ observed.payload.thrown \in {NoResourceName, NoHooks} =>
    fetchFunction = observed.payload.transport

\* a constructor given createSlice and a fetchFunction but no createSelector
\* has thrown, and the transport is the default one still
C39_Witness ==
  /\ observed.op = "construct"
  /\ observed.payload.thrown = NoHooks
  /\ observed.payload.options \notin {Undefined, Null}
  /\ "fetchFunction" \in DOMAIN observed.payload.options
  /\ observed.payload.options.fetchFunction # observed.payload.transport
  /\ fetchFunction = defaultFetchFunction

====
